---- MODULE Spec2Model ----
(***************************************************************************)
(* A model of ja_timex.timex.TimexParser: the constructor, which forwards  *)
(* ignore_kansuji to the number normalizer, and parse, the pipeline        *)
(*   _normalize_number -> _extract -> _extract_filter -> _drop_duplicates  *)
(*   -> _parse -> _modify_renge_start_and_end -> _extract_abbrev_patten    *)
(*   -> _modify_additional_information.                                    *)
(*                                                                         *)
(* A text is a sequence of characters; a span <<s, e>> is Python's         *)
(* half-open [s, e) with 0-based offsets, so the character at Python index *)
(* i is text[i + 1].  The characters are ASCII stand-ins:                  *)
(*   "1"  an Arabic digit              "K"  a kanji numeral (ichi)         *)
(*   "d"  the day unit (nichi)         "z"  the suffix mae ("before")      *)
(*   "k","r"  the two characters of the range word kara                    *)
(*   ","  a comma       ":"  a colon   "#"  the ordinal prefix dai         *)
(*   "o"  the suffix oki ("every")     "~" "-" "y" "s"  the other range    *)
(*   tokens (wave dash, hyphen) and the connectives yoku and dou           *)
(***************************************************************************)
EXTENDS Integers, Sequences, FiniteSets, TLC

VARIABLES
    normalizer,   \* the NumberNormalizer() built once as the default argument
    parsers,      \* each TimexParser instance: its constructor arguments and attributes
    calls,        \* each parse call: its position in parse and its local variables
    fed           \* the number of words of each text given to parse so far

vars == <<normalizer, parsers, calls, fed>>

(* Bounds of the model. *)
MaxSegs == 5
MaxFed == 4
MaxSharedSegs == 2
MaxParsers == 2
\* stands for an unbounded repetition count: longer than any text of the model
Many == 2 * MaxSegs + 2

\* Python's None, for a field that holds a string, a span or a tid, a token
None == "None"
NoSpan == << >>
NoTid == << >>
NoToken == << >>

---------------------------------------------------------------------------
(* Inputs: a raw text is a concatenation of words of a lexicon: a digit, a *)
(* day expression, the suffix of a relative duration, the range word, a    *)
(* comma, a colon; for a parser with a custom tagger the prefix of its     *)
(* pattern; a kanji numeral where the normalizer matters.                  *)

Lexicon == {<<"1">>, <<"1", "d">>, <<"z">>, <<"k", "r">>, <<",">>, <<":">>}
CustomLexicon == {<<"#">>, <<"1">>, <<"1", "d">>, <<"k", "r">>, <<",">>}
LexiconOf(custom_tagger) == IF custom_tagger = "None" THEN Lexicon ELSE CustomLexicon
SharedLexicon == {<<"1">>, <<"K">>, <<"d">>}

RECURSIVE Flatten(_)
Flatten(segs) ==
    IF segs = << >> THEN << >> ELSE Head(segs) \o Flatten(Tail(segs))

TextsOver(lexicon, n) ==
    {Flatten(segs) : segs \in UNION {[1..k -> lexicon] : k \in 0..n}}

SegSeqs(lexicon, n) == UNION {[1..k -> lexicon] : k \in 0..n}
SharedTexts == TextsOver(SharedLexicon, MaxSharedSegs)
\* the texts of the two interleaved calls: a range, an abbreviation, a
\* duration, a kanji day, a text without a tag
ConcTexts ==
    {<<"1", "d", "k", "r", "1", "d">>, <<"1", ",", "1", "d">>, <<"1", "d", "z">>,
     <<"K", "d">>, <<"z">>}

---------------------------------------------------------------------------
(* Character classes and slices.                                           *)

Digit == {"1"}
Kansuji == {"K"}
\* [0-9\.:/] and the full-width colon: the class of the numeric run
NumRunChars == {"1", ".", ":", "/"}
\* [0-9\.]: the class of the leading number of a tag's text
NumPrefixChars == {"1", "."}

Min(a, b) == IF a <= b THEN a ELSE b

\* text[s:e] of Python, for 0 <= s: a slice stops at the end of the text
Slice(text, s, e) ==
    IF s >= Min(e, Len(text)) THEN << >> ELSE SubSeq(text, s + 1, Min(e, Len(text)))

\* text[i:i+1] of Python: the character at index i, or nothing
CharAt(text, i) == Slice(text, i, i + 1)

InClass(chars, cls) == chars # << >> /\ chars[1] \in cls

EndsWith(text, tok) ==
    /\ Len(tok) <= Len(text)
    /\ SubSeq(text, Len(text) - Len(tok) + 1, Len(text)) = tok

---------------------------------------------------------------------------
(* Regular expressions: a sequence of elements [cls, lo, hi], each         *)
(* matching between lo and hi characters of cls, greedily, backtracking.   *)

Lit(c) == [cls |-> {c}, lo |-> 1, hi |-> 1]
Rep(cls, lo, hi) == [cls |-> cls, lo |-> lo, hi |-> hi]

\* the number of consecutive characters of cls from Python index i, at most hi
RECURSIVE RunLen(_, _, _, _)
RunLen(cls, text, i, hi) ==
    IF hi = 0 \/ i >= Len(text) \/ text[i + 1] \notin cls THEN 0
    ELSE 1 + RunLen(cls, text, i + 1, hi - 1)

\* The end of the match of re[k..] at Python index i, or -1.  With full, the
\* match must end at the end of the text (re.fullmatch).
RECURSIVE MatchFrom(_, _, _, _, _)
RECURSIVE TryCount(_, _, _, _, _, _)
MatchFrom(re, k, text, i, full) ==
    IF k > Len(re) THEN (IF full /\ i # Len(text) THEN -1 ELSE i)
    ELSE TryCount(re, k, text, i, full, RunLen(re[k].cls, text, i, re[k].hi))

TryCount(re, k, text, i, full, j) ==
    IF j < re[k].lo THEN -1
    ELSE LET e == MatchFrom(re, k + 1, text, i + j, full)
         IN  IF e # -1 THEN e ELSE TryCount(re, k, text, i, full, j - 1)

\* re.finditer: the spans of the non-overlapping matches, left to right
RECURSIVE FindIter(_, _, _)
FindIter(re, text, pos) ==
    IF pos >= Len(text) THEN << >>
    ELSE IF text[pos + 1] \notin re[1].cls THEN FindIter(re, text, pos + 1)
    ELSE LET e == MatchFrom(re, 1, text, pos, FALSE)
         IN  IF e = -1 THEN FindIter(re, text, pos + 1)
             ELSE <<<<pos, e>>>> \o FindIter(re, text, e)

FullMatch(re, text) == MatchFrom(re, 1, text, 0, TRUE) # -1

---------------------------------------------------------------------------
(* The collaborators: patterns, parse callbacks, filters, the normalizer,  *)
(* the range-token detector.                                               *)

\* Pattern: re_pattern, the TIMEX type its parse_func produces, and the
\* static mod / quant of its option.
PatternTable ==
    [date_day    |-> [re_pattern |-> <<Rep(Digit, 1, 2), Lit("d")>>,
                      type |-> "DATE", mod |-> None, quant |-> None, span |-> TRUE],
     time_hm     |-> [re_pattern |-> <<Rep(Digit, 1, 2), Lit(":"), Rep(Digit, 1, 2)>>,
                      type |-> "TIME", mod |-> None, quant |-> None, span |-> TRUE],
     dur_day     |-> [re_pattern |-> <<Rep(NumPrefixChars, 1, Many), Lit("d")>>,
                      type |-> "DURATION", mod |-> None, quant |-> None, span |-> TRUE],
     rel_before  |-> [re_pattern |-> <<Rep(NumPrefixChars, 1, Many), Lit("d"), Lit("z")>>,
                      type |-> "DURATION", mod |-> "BEFORE", quant |-> None, span |-> TRUE],
     set_every   |-> [re_pattern |-> <<Rep(NumPrefixChars, 1, Many), Lit("d"), Lit("o")>>,
                      type |-> "SET", mod |-> None, quant |-> "EVERY", span |-> TRUE],
     ordinal     |-> [re_pattern |-> <<Lit("#"), Rep(Digit, 1, Many)>>,
                      type |-> "DATE", mod |-> None, quant |-> None, span |-> TRUE],
     ordinal_nospan |-> [re_pattern |-> <<Lit("#"), Rep(Digit, 1, Many)>>,
                      type |-> "DATE", mod |-> None, quant |-> None, span |-> FALSE]]

AbstimeTagger == <<"date_day", "time_hm">>
DurationTagger == <<"dur_day">>
ReltimeTagger == <<"rel_before">>
SetTagger == <<"set_every">>
\* the custom_tagger argument: None, or a tagger of one pattern
CustomTaggers == {None, "ordinal", "ordinal_nospan"}

\* TIMEX, as a parse callback builds it from a match.  oid is the identity of
\* the object (its creation index within the call) and src the oid of the tag
\* an abbreviation was expanded from (0: none).  range_start and range_end
\* are FALSE while unset (None) and TRUE once set.
ParseFunc(group, span, pid, oid, src) ==
    [tid |-> NoTid, type |-> PatternTable[pid].type, value |-> group, text |-> group,
     span |-> IF PatternTable[pid].span THEN span ELSE NoSpan,
     mod |-> PatternTable[pid].mod, quant |-> PatternTable[pid].quant,
     range_start |-> FALSE, range_end |-> FALSE, reference |-> None,
     pattern |-> pid, oid |-> oid, src |-> src]

\* NumberNormalizer.normalize: kanji numerals are folded to Arabic digits
\* unless ignore_kansuji is set.
Normalize(ignore_kansuji, raw_text) ==
    [i \in 1..Len(raw_text) |->
        IF raw_text[i] \in Kansuji /\ ~ignore_kansuji THEN "1" ELSE raw_text[i]]

\* the filters: TRUE means discard
NumexpFilter(extract, text) ==
    \/ /\ extract.span[1] > 0
       /\ InClass(CharAt(text, extract.span[1] - 1), NumPrefixChars)
    \/ InClass(CharAt(text, extract.span[2]), NumPrefixChars)

PartialNumFilter(extract, text) ==
    /\ extract.group[1] \in Digit
    /\ extract.span[1] > 0
    /\ InClass(CharAt(text, extract.span[1] - 1), Digit)

DecimalFilter(extract, text) ==
    /\ extract.type_name = "abstime"
    /\ FullMatch(<<Rep(Digit, 1, Many), Lit("."), Rep(Digit, 1, Many)>>, extract.group)

ApplyFilter(name, extract, text) ==
    CASE name = "NumexpFilter" -> NumexpFilter(extract, text)
      [] name = "PartialNumFilter" -> PartialNumFilter(extract, text)
      [] name = "DecimalFilter" -> DecimalFilter(extract, text)

DefaultPatternFilters == <<"NumexpFilter", "PartialNumFilter", "DecimalFilter">>

\* the range tokens of the range annotator (the detector's default list) and
\* those of the abbreviation expander
DefaultRangeExpressions ==
    <<<<"k", "r", "y">>, <<"k", "r", "s">>, <<"k", "r">>, <<"~">>, <<"-">>>>
AbbrevRangeExpressions ==
    <<<<"~">>, <<"-">>, <<"k", "r">>, <<",">>>>

\* detect_range_expression_before_timex: the first token of the list that
\* processed_text[:start_i] ends with, or None (NoToken)
RECURSIVE DetectFrom(_, _, _)
DetectFrom(before, range_expressions, j) ==
    IF j > Len(range_expressions) THEN NoToken
    ELSE IF EndsWith(before, range_expressions[j]) THEN range_expressions[j]
    ELSE DetectFrom(before, range_expressions, j + 1)

detect_range_expression_before_timex(start_i, processed_text, range_expressions) ==
    DetectFrom(Slice(processed_text, 0, start_i), range_expressions, 1)

---------------------------------------------------------------------------
(* The stages of parse.                                                    *)

\* self.all_patterns, in insertion order: custom first when there is one
AllPatterns(custom_tagger) ==
    (IF custom_tagger # None THEN <<<<"custom", <<custom_tagger>>>>>> ELSE << >>)
    \o <<<<"abstime", AbstimeTagger>>, <<"duration", DurationTagger>>,
         <<"reltime", ReltimeTagger>>, <<"set", SetTagger>>>>

\* Extract(type_name, re_match, pattern); re_match is its span and group
MatchesOf(type_name, pid, text) ==
    LET spans == FindIter(PatternTable[pid].re_pattern, text, 0)
    IN  [j \in 1..Len(spans) |->
            [type_name |-> type_name, span |-> spans[j],
             group |-> Slice(text, spans[j][1], spans[j][2]), pattern |-> pid]]

RECURSIVE ExtractPatterns(_, _, _, _)
ExtractPatterns(type_name, patterns, text, j) ==
    IF j > Len(patterns) THEN << >>
    ELSE MatchesOf(type_name, patterns[j], text)
         \o ExtractPatterns(type_name, patterns, text, j + 1)

RECURSIVE ExtractTypes(_, _, _)
ExtractTypes(all_patterns, text, j) ==
    IF j > Len(all_patterns) THEN << >>
    ELSE ExtractPatterns(all_patterns[j][1], all_patterns[j][2], text, 1)
         \o ExtractTypes(all_patterns, text, j + 1)

_extract(all_patterns, processed_text) == ExtractTypes(all_patterns, processed_text, 1)

\* allow_append of one extract: every filter is called, none returned True
AllowAppend(pattern_filters, extract, processed_text) ==
    \A j \in 1..Len(pattern_filters) :
        ~ApplyFilter(pattern_filters[j], extract, processed_text)

\* a variant that stops calling the filters on an extract after the first
\* that returned True
FilterCallsUntilTrue(pattern_filters, i, extract, processed_text) ==
    LET n == Len(pattern_filters)
        hits == {j \in 1..n : ApplyFilter(pattern_filters[j], extract, processed_text)}
        last == IF hits = {} THEN n ELSE CHOOSE j \in hits : \A h \in hits : j <= h
    IN  [j \in 1..last |->
            [extract |-> i, filter |-> pattern_filters[j],
             returned |-> ApplyFilter(pattern_filters[j], extract, processed_text)]]

\* the calls pattern_filter.filter(extract, processed_text) the inner loop
\* makes on the extract at position i, in the order it makes them, each
\* with what it returned
FilterCallsOf(pattern_filters, i, extract, processed_text) ==
    [j \in 1..Len(pattern_filters) |->
        [extract |-> i, filter |-> pattern_filters[j],
         returned |-> ApplyFilter(pattern_filters[j], extract, processed_text)]]

\* the calls of the filters the whole of _extract_filter makes, in order
RECURSIVE FilterCalls(_, _, _, _)
FilterCalls(pattern_filters, extracts, processed_text, i) ==
    IF i > Len(extracts) THEN << >>
    ELSE FilterCallsOf(pattern_filters, i, extracts[i], processed_text)
         \o FilterCalls(pattern_filters, extracts, processed_text, i + 1)

_extract_filter(pattern_filters, extracts, processed_text) ==
    SelectSeq(extracts, LAMBDA e : AllowAppend(pattern_filters, e, processed_text))

\* the order of Python's str on the type names
TypeNameRank(type_name) ==
    CASE type_name = "abstime" -> 1
      [] type_name = "custom" -> 2
      [] type_name = "duration" -> 3
      [] type_name = "reltime" -> 4
      [] type_name = "set" -> 5

\* a variant of the key with the length ascending: (start, len(group), type_name)
KeyLessShortFirst(a, b) ==
    \/ a.span[1] < b.span[1]
    \/ /\ a.span[1] = b.span[1]
       /\ \/ Len(a.group) < Len(b.group)
          \/ /\ Len(a.group) = Len(b.group)
             /\ TypeNameRank(a.type_name) < TypeNameRank(b.type_name)

\* key(a) < key(b) for the key (start, -len(group), type_name)
KeyLess(a, b) ==
    \/ a.span[1] < b.span[1]
    \/ /\ a.span[1] = b.span[1]
       /\ \/ Len(a.group) > Len(b.group)
          \/ /\ Len(a.group) = Len(b.group)
             /\ TypeNameRank(a.type_name) < TypeNameRank(b.type_name)

\* sorted(): stable, so x goes after every element whose key is not greater
RECURSIVE InsertExtract(_, _)
InsertExtract(sorted, x) ==
    IF sorted = << >> THEN <<x>>
    ELSE IF KeyLess(x, Head(sorted)) THEN <<x>> \o sorted
    ELSE <<Head(sorted)>> \o InsertExtract(Tail(sorted), x)

RECURSIVE SortExtracts(_, _)
SortExtracts(xs, done) ==
    IF xs = << >> THEN done
    ELSE SortExtracts(Tail(xs), InsertExtract(done, Head(xs)))

OrderedExtracts(all_extracts) == SortExtracts(all_extracts, << >>)

SpanIndices(span) == {i \in span[1]..(span[2] - 1) : TRUE}

\* type2extracts[type_name].append(extract) on a defaultdict(list), kept as
\* the sequence of its <<key, list>> items in insertion order
DictAppend(dict, key, x) ==
    IF \E j \in 1..Len(dict) : dict[j][1] = key
    THEN [j \in 1..Len(dict) |->
            IF dict[j][1] = key THEN <<key, Append(dict[j][2], x)>> ELSE dict[j]]
    ELSE Append(dict, <<key, <<x>>>>)

\* a variant that tests the last character of the span only
AnyCoveredLast(flags, start_i, end_i) ==
    end_i <= Len(flags) /\ flags[end_i]

\* any(flags[start_i:end_i])
AnyCovered(flags, start_i, end_i) ==
    \E i \in (start_i + 1)..Min(end_i, Len(flags)) : flags[i]

\* flags[start_i:end_i] = [True] * (end_i - start_i): a slice that lies past
\* the end of the list is appended to it
Cover(flags, start_i, end_i) ==
    Slice(flags, 0, start_i) \o [i \in 1..(end_i - start_i) |-> TRUE]
    \o Slice(flags, Min(end_i, Len(flags)), Len(flags))

RECURSIVE DropLoop(_, _, _, _)
DropLoop(ordered_extracts, j, text_coverage_flag, type2extracts) ==
    IF j > Len(ordered_extracts) THEN type2extracts
    ELSE LET target_extract == ordered_extracts[j]
             start_i == target_extract.span[1]
             end_i == target_extract.span[2]
         IN  IF ~AnyCovered(text_coverage_flag, start_i, end_i)
             THEN DropLoop(ordered_extracts, j + 1, Cover(text_coverage_flag, start_i, end_i),
                           DictAppend(type2extracts, target_extract.type_name, target_extract))
             ELSE DropLoop(ordered_extracts, j + 1, text_coverage_flag, type2extracts)

_drop_duplicates(all_extracts, processed_text) ==
    DropLoop(OrderedExtracts(all_extracts), 1,
             [i \in 1..Len(processed_text) |-> FALSE], << >>)

\* the extracts of the dict, in the order of its items
RECURSIVE DictValues(_)
DictValues(dict) ==
    IF dict = << >> THEN << >> ELSE Head(dict)[2] \o DictValues(Tail(dict))

\* every tagger's parse_with_pattern calls the pattern's parse_func
_parse(type2extracts) ==
    LET extracts == DictValues(type2extracts)
    IN  [j \in 1..Len(extracts) |->
            ParseFunc(extracts[j].group, extracts[j].span, extracts[j].pattern, j, 0)]

\* index2timex_i.get(index): the position in timex_tags (from 1) of the last
\* tag whose span holds the index, or 0 for None
Index2TimexGet(timex_tags, index) ==
    LET owners == {i \in 1..Len(timex_tags) :
                      /\ timex_tags[i].span # NoSpan
                      /\ index \in SpanIndices(timex_tags[i].span)}
    IN  IF owners = {} THEN 0 ELSE CHOOSE i \in owners : \A o \in owners : o <= i

\* a variant that passes over the tags without a span only
SkipsSpanless(timex) == timex.span = NoSpan

\* the tags the range annotator passes over
SkipsRange(timex) == timex.span = NoSpan \/ timex.type = "DURATION"

\* a variant without the comparison of the types
AnyPair(start_timex, timex) == start_timex.type = start_timex.type

\* the test that makes a pair of the tag before the token and the tag after it
IsRangePair(start_timex, timex) == start_timex.type = timex.type

\* a variant that marks the end of the range only
MarkRangeEndOnly(timex_tags, start_i, end_i) ==
    [timex_tags EXCEPT ![end_i].range_end = TRUE]

\* start_timex.range_start = True; timex.range_end = True
MarkRange(timex_tags, start_i, end_i) ==
    [timex_tags EXCEPT ![start_i].range_start = TRUE, ![end_i].range_end = TRUE]

RECURSIVE RangeLoop(_, _, _, _)
RangeLoop(timex_tags, first_tags, j, processed_text) ==
    IF j > Len(timex_tags) THEN timex_tags
    ELSE LET timex == timex_tags[j]
             range_expression ==
                 detect_range_expression_before_timex(timex.span[1], processed_text,
                                                      DefaultRangeExpressions)
             possible_timex_end_i == timex.span[1] - Len(range_expression) - 1
             possible_timex_i == Index2TimexGet(first_tags, possible_timex_end_i)
         IN  IF SkipsRange(timex) THEN RangeLoop(timex_tags, first_tags, j + 1, processed_text)
             ELSE IF range_expression = NoToken
             THEN RangeLoop(timex_tags, first_tags, j + 1, processed_text)
             ELSE IF possible_timex_i # 0 /\ IsRangePair(timex_tags[possible_timex_i], timex)
             THEN RangeLoop(MarkRange(timex_tags, possible_timex_i, j),
                            first_tags, j + 1, processed_text)
             ELSE RangeLoop(timex_tags, first_tags, j + 1, processed_text)

_modify_renge_start_and_end(timex_tags, processed_text) ==
    RangeLoop(timex_tags, timex_tags, 1, processed_text)

\* re.search(r"[0-9\.:/]+$", text): the start of the longest run of the class
\* that ends the text, or -1
RECURSIVE TrailingRunStart(_, _)
TrailingRunStart(text, i) ==
    IF i > 0 /\ text[i] \in NumRunChars THEN TrailingRunStart(text, i - 1) ELSE i

SearchNumRun(text) ==
    LET start == TrailingRunStart(text, Len(text))
    IN  IF start = Len(text) THEN -1 ELSE start

\* re.search(r"([0-9\.]+)(.+)", text).group(2), or NoToken without a match:
\* the first character of the class starts group 1, which is greedy and gives
\* back its last character when it reaches the end of the text
AbbrevSuffix(text) ==
    LET starts == {i \in 0..(Len(text) - 1) : text[i + 1] \in NumPrefixChars}
        first == CHOOSE i \in starts : \A o \in starts : i <= o
        run == RunLen(NumPrefixChars, text, first, Len(text))
    IN  IF starts = {} \/ first = Len(text) - 1 THEN NoToken
        ELSE IF first + run = Len(text) THEN Slice(text, Len(text) - 1, Len(text))
        ELSE Slice(text, first + run, Len(text))

\* a variant that copies timex, flags included, instead of calling parse_func
AbbrevTimexCopy(timex, abbrev_full_text, abbrev_text_origin, span, oid) ==
    [timex EXCEPT !.value = abbrev_full_text, !.text = abbrev_text_origin,
                  !.span = span, !.oid = oid, !.src = timex.oid]

\* a variant that leaves the text parse_func gave: the run with the suffix
AbbrevTimexFullText(timex, abbrev_full_text, abbrev_text_origin, span, oid) ==
    [ParseFunc(abbrev_full_text, <<0, Len(abbrev_full_text)>>, timex.pattern, oid, timex.oid)
     EXCEPT !.span = span]

\* abbrev_timex = timex.pattern.parse_func(re_match, timex.pattern), then its
\* text and span are overwritten
AbbrevTimex(timex, abbrev_full_text, abbrev_text_origin, span, oid) ==
    [ParseFunc(abbrev_full_text, <<0, Len(abbrev_full_text)>>, timex.pattern, oid, timex.oid)
     EXCEPT !.text = abbrev_text_origin, !.span = span]

\* the tag the expander makes for timex, as a sequence of none or one
AbbrevOf(timex, processed_text, oid) ==
    LET range_expression ==
            detect_range_expression_before_timex(timex.span[1], processed_text,
                                                 AbbrevRangeExpressions)
        possible_timex_end_i == timex.span[1] - Len(range_expression) - 1
        before == Slice(processed_text, 0, possible_timex_end_i + 1)
        num_start == SearchNumRun(before)
        abbrev_suffix == AbbrevSuffix(timex.text)
        abbrev_text_origin == Slice(before, num_start, Len(before))
        abbrev_full_text == abbrev_text_origin \o abbrev_suffix
    IN  IF timex.span = NoSpan THEN << >>
        ELSE IF range_expression = NoToken THEN << >>
        ELSE IF num_start = -1 THEN << >>
        ELSE IF abbrev_suffix = NoToken \/ timex.pattern = None THEN << >>
        ELSE IF ~FullMatch(PatternTable[timex.pattern].re_pattern, abbrev_full_text) THEN << >>
        ELSE <<AbbrevTimex(timex, abbrev_full_text, abbrev_text_origin,
                           <<num_start, Len(before)>>, oid)>>

RECURSIVE AbbrevLoop(_, _, _, _)
AbbrevLoop(timex_tags, j, processed_text, additional_timexes) ==
    IF j > Len(timex_tags) THEN additional_timexes
    ELSE AbbrevLoop(timex_tags, j + 1, processed_text,
                    additional_timexes
                    \o AbbrevOf(timex_tags[j], processed_text,
                                Len(timex_tags) + Len(additional_timexes) + 1))

_extract_abbrev_patten(timex_tags, processed_text) ==
    timex_tags \o AbbrevLoop(timex_tags, 1, processed_text, << >>)

\* the sort key of the finalizer
SpanStartKey(timex) == IF timex.span # NoSpan THEN timex.span[1] ELSE 0

StartLess(a, b) == SpanStartKey(a) < SpanStartKey(b)

\* sorted(), stable, by the span start
RECURSIVE InsertTag(_, _)
InsertTag(sorted, x) ==
    IF sorted = << >> THEN <<x>>
    ELSE IF StartLess(x, Head(sorted)) THEN <<x>> \o sorted
    ELSE <<Head(sorted)>> \o InsertTag(Tail(sorted), x)

RECURSIVE SortTags(_, _)
SortTags(xs, done) ==
    IF xs = << >> THEN done
    ELSE SortTags(Tail(xs), InsertTag(done, Head(xs)))

\* f"t{i}"
Tid(i) == <<"t", i>>

\* a variant without the sort
FinalizeUnsorted(reference, timex_tags) ==
    [j \in 1..Len(timex_tags) |->
        [timex_tags[j] EXCEPT
            !.tid = Tid(j - 1),
            !.reference = IF reference # None THEN reference ELSE @]]

_modify_additional_information(reference, timex_tags) ==
    LET sorted_timex_tags == SortTags(timex_tags, << >>)
    IN  [j \in 1..Len(sorted_timex_tags) |->
            [sorted_timex_tags[j] EXCEPT
                !.tid = Tid(j - 1),
                !.reference = IF reference # None THEN reference ELSE @]]

---------------------------------------------------------------------------
(* The state machine.                                                      *)

ParserIds == 1..MaxParsers
\* the slots of the calls in progress: two, for two calls that interleave
CallIds == {1, 2}

NoParser ==
    [constructed |-> FALSE, ignore_kansuji |-> FALSE, custom_tagger |-> None,
     reference |-> None, pattern_filters |-> << >>, processed_text |-> << >>]

\* a call: pc, the parser it is a method call on, its argument, its local
\* variables; filter_calls is the log of the calls of the filters that
\* _extract_filter made; parsed_tags, ranged_tags and abbrev_tags keep the values
\* timex_tags had after _parse, after the range annotator and after the
\* expander; clean: no other call has assigned self.processed_text since
\* this call did
IdleCall ==
    [pc |-> "idle", parser |-> 0, raw_text |-> << >>, all_extracts |-> << >>,
     filtered_extracts |-> << >>, type2extracts |-> << >>, timex_tags |-> << >>,
     parsed_tags |-> << >>, ranged_tags |-> << >>, abbrev_tags |-> << >>,
     filter_calls |-> << >>, clean |-> TRUE]

\* TimexParser.__init__: the ignore_kansuji argument goes to
\* self.number_normalizer, which without a number_normalizer argument is the
\* one NumberNormalizer() of the default
Construct(p, custom_tagger, reference, ignore_kansuji) ==
    /\ ~parsers[p].constructed
    /\ parsers' = [parsers EXCEPT ![p] =
            [constructed |-> TRUE, ignore_kansuji |-> ignore_kansuji,
             custom_tagger |-> custom_tagger, reference |-> reference,
             pattern_filters |-> DefaultPatternFilters, processed_text |-> << >>]]
    /\ normalizer' = [normalizer EXCEPT !.ignore_kansuji = ignore_kansuji]
    /\ UNCHANGED <<calls, fed>>

\* The statements of parse after the first, in blocks that each read
\* self.processed_text once: pc names the next block.
NextPc(pc) ==
    CASE pc = "extract" -> "filter"
      [] pc = "filter" -> "drop"
      [] pc = "drop" -> "range"
      [] pc = "range" -> "abbrev"
      [] pc = "abbrev" -> "done"

Stage(call, self) ==
    LET next == [call EXCEPT !.pc = NextPc(call.pc)]
    IN  CASE call.pc = "extract" ->
                [next EXCEPT !.all_extracts =
                    _extract(AllPatterns(self.custom_tagger), self.processed_text)]
          [] call.pc = "filter" ->
                [next EXCEPT !.filtered_extracts =
                    _extract_filter(self.pattern_filters, call.all_extracts,
                                    self.processed_text),
                             !.filter_calls =
                    FilterCalls(self.pattern_filters, call.all_extracts,
                                self.processed_text, 1)]
          [] call.pc = "drop" ->
                LET d == _drop_duplicates(call.filtered_extracts, self.processed_text)
                    t == _parse(d)
                IN  [next EXCEPT !.type2extracts = d, !.timex_tags = t, !.parsed_tags = t]
          [] call.pc = "range" ->
                LET t == _modify_renge_start_and_end(call.timex_tags, self.processed_text)
                IN  [next EXCEPT !.timex_tags = t, !.ranged_tags = t]
          [] call.pc = "abbrev" ->
                LET t == _extract_abbrev_patten(call.timex_tags, self.processed_text)
                IN  [next EXCEPT !.abbrev_tags = t,
                        !.timex_tags = _modify_additional_information(self.reference, t)]

RECURSIVE RunStages(_, _)
RunStages(call, self) ==
    IF call.pc = "done" THEN call ELSE RunStages(Stage(call, self), self)

\* the call after the first statement of parse
Entered(p, raw_text) ==
    [IdleCall EXCEPT !.pc = "extract", !.parser = p, !.raw_text = raw_text]

\* parse can be called: the parser exists and the slot is free
CanParse(c, p) == parsers[p].constructed /\ calls[c].pc = "idle"

\* parse, from its call to its return
Parse(c, p, raw_text) ==
    /\ LET processed_text == Normalize(normalizer.ignore_kansuji, raw_text)
           self == [parsers[p] EXCEPT !.processed_text = processed_text]
       IN  /\ parsers' = [parsers EXCEPT ![p] = self]
           /\ calls' = [calls EXCEPT ![c] = RunStages(Entered(p, raw_text), self)]
    /\ UNCHANGED normalizer

\* the caller drops the returned list: the slot is free again
Return(c) ==
    /\ calls[c].pc = "done"
    /\ calls' = [calls EXCEPT ![c] = IdleCall]
    /\ UNCHANGED <<normalizer, parsers, fed>>

\* the first statement of parse, self.processed_text = ..., as a step of its
\* own: the calls in progress on the same parser are no longer clean
Enter(c, p, raw_text) ==
    /\ parsers' = [parsers EXCEPT ![p].processed_text =
                        Normalize(normalizer.ignore_kansuji, raw_text)]
    /\ calls' = [d \in CallIds |->
                    IF d = c THEN Entered(p, raw_text)
                    ELSE IF calls[d].parser = p /\ calls[d].pc \notin {"idle", "done"}
                    THEN [calls[d] EXCEPT !.clean = FALSE]
                    ELSE calls[d]]
    /\ UNCHANGED <<normalizer, fed>>

\* a variant whose block reads raw_text where parse reads self.processed_text
StepOnRawText(c) ==
    /\ calls[c].pc \notin {"idle", "done"}
    /\ calls' = [calls EXCEPT ![c] =
            Stage(calls[c], [parsers[calls[c].parser] EXCEPT
                                !.processed_text = calls[c].raw_text])]
    /\ UNCHANGED <<normalizer, parsers, fed>>

\* the next block of parse, as a step of its own
Step(c) ==
    /\ calls[c].pc \notin {"idle", "done"}
    /\ calls' = [calls EXCEPT ![c] = Stage(calls[c], parsers[calls[c].parser])]
    /\ UNCHANGED <<normalizer, parsers, fed>>

Init ==
    /\ normalizer = [ignore_kansuji |-> FALSE]
    /\ parsers = [p \in ParserIds |-> NoParser]
    /\ calls = [c \in CallIds |-> IdleCall]
    /\ fed = << >>

\* Spec: one parser, with or without a custom tagger, and one call of parse
\* on every text of at most MaxSegs words of the lexicon of the parser.
ConstructCustom ==
    \E custom_tagger \in CustomTaggers : Construct(1, custom_tagger, None, FALSE)

ParseText ==
    /\ CanParse(1, 1)
    /\ fed = << >>
    /\ \E segs \in SegSeqs(LexiconOf(parsers[1].custom_tagger), MaxSegs) :
          /\ Parse(1, 1, Flatten(segs))
          /\ fed' = <<Len(segs)>>

Next == ConstructCustom \/ ParseText

Spec == Init /\ [][Next]_vars

\* SpecAgain: one parser with a reference and its calls of parse, one after
\* the other, on texts of at most MaxFed words in all.
ConstructReference ==
    \E custom_tagger \in CustomTaggers : Construct(1, custom_tagger, "now", FALSE)

RECURSIVE Sum(_)
Sum(ns) == IF ns = << >> THEN 0 ELSE Head(ns) + Sum(Tail(ns))

ParseAgain ==
    /\ CanParse(1, 1)
    /\ \E segs \in SegSeqs(LexiconOf(parsers[1].custom_tagger), MaxFed - Sum(fed)) \ {<< >>} :
          /\ Parse(1, 1, Flatten(segs))
          /\ fed' = Append(fed, Len(segs))

NextAgain == ConstructReference \/ ParseAgain \/ Return(1)

SpecAgain == Init /\ [][NextAgain]_vars

\* SpecShared: the parsers are constructed in any order, each with its own
\* ignore_kansuji, and parse is called on them, one call after the other.
ConstructAny ==
    \E p \in ParserIds, ignore_kansuji \in BOOLEAN :
        Construct(p, None, None, ignore_kansuji)

ParseAny ==
    \E p \in ParserIds :
        /\ CanParse(1, p)
        /\ \E raw_text \in SharedTexts : Parse(1, p, raw_text)
        /\ UNCHANGED fed

NextShared == ConstructAny \/ ParseAny \/ Return(1)

SpecShared == Init /\ [][NextShared]_vars

\* SpecConc: two calls of parse on one parser, interleaved block by block.
ConstructOne == Construct(1, None, None, FALSE)

EnterAny ==
    \E c \in CallIds :
        /\ CanParse(c, 1)
        /\ \E raw_text \in ConcTexts : Enter(c, 1, raw_text)

StepAny == \E c \in CallIds : Step(c)

NextConc == ConstructOne \/ EnterAny \/ StepAny

SpecConc == Init /\ [][NextConc]_vars

---------------------------------------------------------------------------
(* The properties of parse.                                                *)

\* parse has returned to the caller of call c; its list is calls[c].timex_tags
Done(c) == calls[c].pc = "done"

\* the processed_text of the parser of call c
TextOf(c) == parsers[calls[c].parser].processed_text

\* the tag was made by the abbreviation expander
Synthesized(timex) == timex.src # 0

Overlap(a, b) == SpanIndices(a) \cap SpanIndices(b) # {}

\* the token tok lies directly before T and the character before the token
\* belongs to the span of S
Flanks(text, S, T, tok) ==
    /\ S.span # NoSpan
    /\ T.span # NoSpan
    /\ EndsWith(Slice(text, 0, T.span[1]), tok)
    /\ (T.span[1] - Len(tok) - 1) \in SpanIndices(S.span)

\* S and T form an annotated pair
AnnotatedPair(text, S, T) ==
    /\ T.span # NoSpan
    /\ T.type # "DURATION"
    /\ \E j \in 1..Len(DefaultRangeExpressions) :
          Flanks(text, S, T, DefaultRangeExpressions[j])
    /\ S.type = T.type

\* the flags are those of the annotated pairs among the tags at the
\* positions among of the list tags; a list of exactly two such tags that
\* with a token between them make up the text is marked start, end
FlagsFollowPairs(text, tags, among) ==
    /\ \A i \in among :
          /\ tags[i].range_end <=> \E j \in among : AnnotatedPair(text, tags[j], tags[i])
          /\ tags[i].range_start <=> \E j \in among : AnnotatedPair(text, tags[i], tags[j])
    /\ \A i, j \in among :
          ( /\ among = {i, j}
            /\ i # j
            /\ tags[i].type = tags[j].type
            /\ tags[i].type # "DURATION"
            /\ tags[i].span # NoSpan /\ tags[j].span # NoSpan
            /\ tags[i].span[1] = 0 /\ tags[j].span[2] = Len(text)
            /\ \E k \in 1..Len(DefaultRangeExpressions) :
                  text = tags[i].text \o DefaultRangeExpressions[k] \o tags[j].text )
          => /\ tags[i].range_start /\ ~tags[i].range_end
             /\ tags[j].range_end /\ ~tags[j].range_start

\* C1: the spans of the tags parse returns are pairwise non-overlapping, the
\* tags of the abbreviation expander included.
C1_SpansDisjoint ==
    \A c \in CallIds : Done(c) =>
        LET tags == calls[c].timex_tags
        IN  \A i, j \in 1..Len(tags) :
                (i < j /\ tags[i].span # NoSpan /\ tags[j].span # NoSpan)
                => ~Overlap(tags[i].span, tags[j].span)

\* C2: the tag at index i of the returned list has tid "t"+i and the list is
\* in ascending order of span start, a tag without a span counting as start
\* 0, on the first call of a parser and on every later one.
C2_TidsInStartOrder ==
    \A c \in CallIds : Done(c) =>
        LET tags == calls[c].timex_tags
            start(t) == IF t.span = NoSpan THEN 0 ELSE t.span[1]
        IN  /\ \A i \in 1..Len(tags) : tags[i].tid = <<"t", i - 1>>
            /\ \A i \in 1..(Len(tags) - 1) : start(tags[i]) <= start(tags[i + 1])

\* a later call of the parser returned a list that is not in the order the
\* tags were made in
C2_Witness ==
    /\ Done(1)
    /\ Len(fed) >= 2
    /\ \E i \in 1..Len(calls[1].timex_tags) : calls[1].timex_tags[i].oid # i

\* C3 as stated: over all the tags of the output, T has range_end and S has
\* range_start exactly when they form an annotated pair, and the two tags of
\* an input X<token>Y of equal non-DURATION type are marked start and end.
C3_FlagsFollowPairsOfAllTags ==
    \A c \in CallIds : Done(c) =>
        FlagsFollowPairs(TextOf(c), calls[c].timex_tags,
                         1..Len(calls[c].timex_tags))

\* C3, amended: the same over the tags that come from deduplicated extracts;
\* the tags made by the abbreviation expander form no pair.
C3_FlagsFollowPairsOfExtractedTags ==
    \A c \in CallIds : Done(c) =>
        LET tags == calls[c].timex_tags
        IN  FlagsFollowPairs(TextOf(c), tags,
                             {i \in 1..Len(tags) : ~Synthesized(tags[i])})

\* an annotated pair of extracted tags is marked, next to a synthesized tag
C3_Witness ==
    /\ Done(1)
    /\ LET tags == calls[1].timex_tags
       IN  /\ \E i, j \in 1..Len(tags) :
                 /\ ~Synthesized(tags[i]) /\ ~Synthesized(tags[j])
                 /\ AnnotatedPair(TextOf(1), tags[i], tags[j])
                 /\ tags[i].range_start /\ tags[j].range_end
           /\ \E k \in 1..Len(tags) : Synthesized(tags[k])

\* C4: every returned tag X with range_end has an earlier tag Y of the list,
\* with a smaller span start, that has range_start and the type of X.
C4_RangeEndHasRangeStart ==
    \A c \in CallIds : Done(c) =>
        LET tags == calls[c].timex_tags
        IN  \A i \in 1..Len(tags) : tags[i].range_end =>
                \E j \in 1..(i - 1) :
                    /\ tags[j].span # NoSpan
                    /\ tags[j].span[1] < tags[i].span[1]
                    /\ tags[j].range_start
                    /\ tags[j].type = tags[i].type

\* a tag in the middle of a chain is the end of one range and the start of
\* the next
C4_Witness ==
    /\ Done(1)
    /\ \E i \in 1..Len(calls[1].timex_tags) :
          calls[1].timex_tags[i].range_end /\ calls[1].timex_tags[i].range_start

\* C5: no returned DURATION tag has range_start or range_end, and a range
\* token flanked by two tags of different type leaves the left tag without
\* range_start and the right tag without range_end.
C5_NoRangeAcrossTypes ==
    \A c \in CallIds : Done(c) =>
        LET tags == calls[c].timex_tags
        IN  /\ \A i \in 1..Len(tags) : tags[i].type = "DURATION" =>
                  ~tags[i].range_start /\ ~tags[i].range_end
            /\ \A i, j \in 1..Len(tags) :
                  ( /\ tags[i].type # tags[j].type
                    /\ \E k \in 1..Len(DefaultRangeExpressions) :
                          Flanks(TextOf(c), tags[i], tags[j], DefaultRangeExpressions[k]) )
                  => ~tags[i].range_start /\ ~tags[j].range_end

\* a range token between an extracted tag and a DURATION of another type
C5_Witness ==
    /\ Done(1)
    /\ LET tags == calls[1].timex_tags
           flanked(i, j) == \E k \in 1..Len(DefaultRangeExpressions) :
                  Flanks(TextOf(1), tags[i], tags[j], DefaultRangeExpressions[k])
       IN  \E i, j \in 1..Len(tags) :
              /\ flanked(i, j)
              /\ tags[j].type = "DURATION"
              /\ tags[i].type # tags[j].type
              /\ ~Synthesized(tags[i])

\* the tag of the list with the identity oid
TagOf(tags, oid) == tags[CHOOSE i \in 1..Len(tags) : tags[i].oid = oid]

\* C6 as stated: whenever the expander synthesizes a tag A from a tag T,
\* neither A nor T has range_start or range_end in the output of parse.
C6_NoFlagsOnAbbreviationOrSource ==
    \A c \in CallIds : Done(c) =>
        LET tags == calls[c].timex_tags
        IN  \A i \in 1..Len(tags) : Synthesized(tags[i]) =>
                LET A == tags[i]
                    T == TagOf(tags, A.src)
                IN  /\ ~A.range_start /\ ~A.range_end
                    /\ ~T.range_start /\ ~T.range_end

\* C6, amended: a synthesized tag A has neither flag, and its source T has in
\* the output the flags the range annotator, which runs before the expander,
\* gave it.
C6_NoFlagsOnAbbreviation ==
    \A c \in CallIds : Done(c) =>
        LET tags == calls[c].timex_tags
        IN  \A i \in 1..Len(tags) : Synthesized(tags[i]) =>
                LET A == tags[i]
                    T == TagOf(tags, A.src)
                    before == TagOf(calls[c].ranged_tags, A.src)
                IN  /\ ~A.range_start /\ ~A.range_end
                    /\ T.range_start = before.range_start
                    /\ T.range_end = before.range_end

\* a tag was synthesized from a tag that is the start or the end of a range
C6_Witness ==
    /\ Done(1)
    /\ LET tags == calls[1].timex_tags
       IN  \E i \in 1..Len(tags) :
              /\ Synthesized(tags[i])
              /\ TagOf(tags, tags[i].src).range_start \/ TagOf(tags, tags[i].src).range_end

\* C7: the expander returns the tags it was given, unchanged, followed by
\* the synthesized ones; each synthesized tag A of a tag T is what the parse
\* callback of T.pattern makes of the full match of the numeric run followed
\* by the unit suffix of T, with the text overwritten by the run and the span
\* by the span of the run in processed_text, and has the type, mod and quant
\* of T.
C7_AbbreviationFromCallback ==
    \A c \in CallIds : Done(c) =>
        LET text == TextOf(c)
            given == calls[c].ranged_tags
            tags == calls[c].abbrev_tags
        IN  /\ Len(tags) >= Len(given)
            /\ \A i \in 1..Len(given) : tags[i] = given[i]
            /\ \A i \in (Len(given) + 1)..Len(tags) :
                  LET A == tags[i] IN
                  /\ A.src \in 1..Len(given)
                  /\ LET T == given[A.src] IN
                     /\ T.span # NoSpan /\ A.span # NoSpan
                     /\ A.text # << >>
                     /\ A.text = Slice(text, A.span[1], A.span[2])
                     /\ \A k \in 1..Len(A.text) : A.text[k] \in NumRunChars
                     /\ A.span[1] = 0 \/ text[A.span[1]] \notin NumRunChars
                     /\ \E k \in 1..Len(AbbrevRangeExpressions) :
                           Slice(text, A.span[2], T.span[1]) = AbbrevRangeExpressions[k]
                     /\ \E m \in 1..(Len(T.text) - 1) :
                           LET full == A.text \o Slice(T.text, m, Len(T.text)) IN
                           /\ \A k \in 1..m : T.text[k] \in NumPrefixChars
                           /\ FullMatch(PatternTable[T.pattern].re_pattern, full)
                           /\ A = [ParseFunc(full, <<0, Len(full)>>, T.pattern, A.oid, T.oid)
                                   EXCEPT !.text = A.text, !.span = A.span]
                     /\ A.type = T.type /\ A.mod = T.mod /\ A.quant = T.quant

\* a tag with a mod was synthesized: its value holds the suffix, its text
\* does not
C7_Witness ==
    /\ Done(1)
    /\ \E i \in 1..Len(calls[1].abbrev_tags) :
          /\ Synthesized(calls[1].abbrev_tags[i])
          /\ calls[1].abbrev_tags[i].mod = "BEFORE"
          /\ calls[1].abbrev_tags[i].text # calls[1].abbrev_tags[i].value

\* a comes before b in the order (span start ascending, match length
\* descending, category)
Earlier(a, b) ==
    \/ a.span[1] < b.span[1]
    \/ a.span[1] = b.span[1] /\ Len(a.group) > Len(b.group)
    \/ /\ a.span[1] = b.span[1] /\ Len(a.group) = Len(b.group)
       /\ TypeNameRank(a.type_name) < TypeNameRank(b.type_name)

\* C8: of the extracts given to _drop_duplicates, one that no retained
\* extract earlier in the order (start ascending, length descending,
\* category) overlaps is retained; of two extracts with the same start only
\* the longer can be retained, and of two with the same start and length only
\* the one whose category comes first, abstime before duration before
\* reltime before set.
C8_EarlierInOrderWins ==
    \A c \in CallIds : Done(c) =>
        LET given == calls[c].filtered_extracts
            kept == DictValues(calls[c].type2extracts)
            Retained(e) == \E k \in 1..Len(kept) : kept[k] = e
        IN  /\ \A k \in 1..Len(kept) : \E i \in 1..Len(given) : given[i] = kept[k]
            /\ \A i \in 1..Len(given) :
                  (\A j \in 1..Len(given) :
                      ~(/\ Retained(given[j])
                        /\ Earlier(given[j], given[i])
                        /\ Overlap(given[j].span, given[i].span)))
                  => Retained(given[i])
            /\ \A i, j \in 1..Len(given) :
                  (given[i].span[1] = given[j].span[1] /\ Earlier(given[i], given[j]))
                  => ~Retained(given[j])

\* extracts of the same start and different lengths, and of the same span and
\* different categories, were given and the longest was retained
C8_Witness ==
    /\ Done(1)
    /\ LET given == calls[1].filtered_extracts
           kept == DictValues(calls[1].type2extracts)
       IN  \E i, j, k \in 1..Len(given) :
              /\ given[i].span = given[j].span
              /\ given[i].type_name = "abstime" /\ given[j].type_name = "duration"
              /\ given[k].span[1] = given[i].span[1]
              /\ Len(given[k].group) > Len(given[i].group)
              /\ \E m \in 1..Len(kept) : kept[m] = given[k]

\* C9: a call of parse folds the kanji numerals exactly when the parser it
\* is called on was constructed with ignore_kansuji = false, whatever
\* parsers were constructed in between.
C9_OwnFlagDecides ==
    \A c \in CallIds : Done(c) =>
        LET self == parsers[calls[c].parser]
        IN  self.processed_text = Normalize(self.ignore_kansuji, calls[c].raw_text)

\* parse run alone: every stage on the normalized text of raw_text
AloneResult(self, raw_text) ==
    LET processed_text == Normalize(normalizer.ignore_kansuji, raw_text)
        all_extracts == _extract(AllPatterns(self.custom_tagger), processed_text)
        filtered_extracts == _extract_filter(self.pattern_filters, all_extracts, processed_text)
        type2extracts == _drop_duplicates(filtered_extracts, processed_text)
        parsed == _parse(type2extracts)
        ranged == _modify_renge_start_and_end(parsed, processed_text)
        expanded == _extract_abbrev_patten(ranged, processed_text)
    IN  _modify_additional_information(self.reference, expanded)

Buckets(type2extracts) == {type2extracts[k][2] : k \in 1..Len(type2extracts)}

\* C11: after _drop_duplicates no two retained extracts, of the same bucket
\* or of different buckets, share a character index; every bucket is in
\* ascending order of span start; every discarded extract overlaps a retained
\* extract that comes before it in the sort order.
C11_RetainedDisjointAndOrdered ==
    \A c \in CallIds : Done(c) =>
        LET given == calls[c].filtered_extracts
            kept == DictValues(calls[c].type2extracts)
            Retained(e) == \E k \in 1..Len(kept) : kept[k] = e
            Precedes(i, j) ==
                \/ Earlier(given[i], given[j])
                \/ ~Earlier(given[j], given[i]) /\ i < j
        IN  /\ \A i, j \in 1..Len(kept) :
                  i # j => ~Overlap(kept[i].span, kept[j].span)
            /\ \A bucket \in Buckets(calls[c].type2extracts) :
                  \A i \in 1..(Len(bucket) - 1) : bucket[i].span[1] < bucket[i + 1].span[1]
            /\ \A j \in 1..Len(given) : ~Retained(given[j]) =>
                  \E i \in 1..Len(given) :
                      /\ Retained(given[i])
                      /\ Precedes(i, j)
                      /\ Overlap(given[i].span, given[j].span)

\* extracts were retained in two buckets, one bucket holds two, and an
\* extract that starts inside a retained one was discarded
C11_Witness ==
    /\ Done(1)
    /\ LET given == calls[1].filtered_extracts
           kept == DictValues(calls[1].type2extracts)
       IN  /\ Len(calls[1].type2extracts) >= 2
           /\ \E bucket \in Buckets(calls[1].type2extracts) : Len(bucket) >= 2
           /\ \E i, j \in 1..Len(given) :
                 /\ \E k \in 1..Len(kept) : kept[k] = given[i]
                 /\ \A k \in 1..Len(kept) : kept[k] # given[j]
                 /\ given[i].span[1] < given[j].span[1]
                 /\ Overlap(given[i].span, given[j].span)

\* the extracts that survive are those for which every call of a filter
\* returned False, in their input order, and the calls on one extract follow
\* the registration order of the filters
SurvivorsFollowCalls(given, survivors, filters, log) ==
    LET CallsOn(i) == SelectSeq(log, LAMBDA call : call.extract = i)
        Survives(i) == \A k \in 1..Len(log) : log[k].extract = i => ~log[k].returned
        Position(e) == CHOOSE i \in 1..Len(given) : given[i] = e
    IN  /\ \A k \in 1..Len(log) :
              /\ log[k].extract \in 1..Len(given)
              /\ log[k].returned =
                    ApplyFilter(log[k].filter, given[log[k].extract], TextOf(1))
        /\ \A i \in 1..Len(given) :
              /\ Len(CallsOn(i)) >= 1
              /\ Len(CallsOn(i)) <= Len(filters)
              /\ \A j \in 1..Len(CallsOn(i)) : CallsOn(i)[j].filter = filters[j]
              /\ Survives(i) <=> \E k \in 1..Len(survivors) : survivors[k] = given[i]
        /\ \A k \in 1..Len(survivors) : \E i \in 1..Len(given) : given[i] = survivors[k]
        /\ \A k \in 1..(Len(survivors) - 1) :
              Position(survivors[k]) < Position(survivors[k + 1])
        /\ \A a, b \in 1..Len(log) : a < b => log[a].extract <= log[b].extract

\* C12 as stated: an extract survives exactly when every filter returns
\* False for it, the filters are called on each extract in registration
\* order, no filter is called on an extract after one returned True for it,
\* and the survivors keep their input order.
C12_FiltersShortCircuit ==
    Done(1) =>
        /\ SurvivorsFollowCalls(calls[1].all_extracts, calls[1].filtered_extracts,
                                parsers[1].pattern_filters, calls[1].filter_calls)
        /\ \A a, b \in 1..Len(calls[1].filter_calls) :
              (a < b /\ calls[1].filter_calls[a].extract = calls[1].filter_calls[b].extract)
              => ~calls[1].filter_calls[a].returned

\* C12, amended: an extract survives exactly when every filter returns False
\* for it, every filter is called on every extract, in registration order,
\* also after a filter returned True for it, and the survivors keep their
\* input order.
C12_EveryFilterCalled ==
    Done(1) =>
        /\ SurvivorsFollowCalls(calls[1].all_extracts, calls[1].filtered_extracts,
                                parsers[1].pattern_filters, calls[1].filter_calls)
        /\ \A i \in 1..Len(calls[1].all_extracts) :
              Len(SelectSeq(calls[1].filter_calls, LAMBDA call : call.extract = i))
                  = Len(parsers[1].pattern_filters)

\* a filter was called on an extract after an earlier filter returned True
\* for it, and another extract survived
C12_Witness ==
    /\ Done(1)
    /\ calls[1].filtered_extracts # << >>
    /\ \E a, b \in 1..Len(calls[1].filter_calls) :
          /\ a < b
          /\ calls[1].filter_calls[a].extract = calls[1].filter_calls[b].extract
          /\ calls[1].filter_calls[a].returned

====
